---- MODULE Spec2Model ----
(***************************************************************************)
(* Model of the subscan resolution engine (src/src/scanner.rs):            *)
(* SubdomainScanner::new, SubdomainScanner::scan and                       *)
(* SubdomainScanner::try_resolvers, as driven by main (src/src/main.rs).   *)
(*                                                                         *)
(* One scan is modelled: main constructs the scanner from a resolver file  *)
(* and a wordlist, the admission loop of scan() spawns one task per        *)
(* subdomain under a semaphore, every task races the whole resolver pool   *)
(* (try_resolvers), winners are sent on a bounded mpsc channel, and after  *)
(* the admission loop the receiver is drained into found_domains.          *)
(***************************************************************************)
EXTENDS Integers, Sequences, FiniteSets, TLC

(***************************************************************************)
(* Bound of the model: the longest wordlist file.                          *)
(***************************************************************************)
MaxLines == 4

(***************************************************************************)
(* Program constants.  scan() creates the semaphore and the channel with   *)
(* 1000000 permits / slots each; the model keeps the two numbers as        *)
(* definitions and scales them down so that wordlists longer than          *)
(* Permits, and longer than Permits + ChanCap, are within the bounds.      *)
(***************************************************************************)
Permits == 2
ChanCap == 1

\* main passes args.domain; one fixed, well-formed base domain is used
Domain == "example.com"

(***************************************************************************)
(* Input files.  A resolver line is a sequence of tokens (host, ":",       *)
(* port, blanks); a wordlist line is a string.                             *)
(***************************************************************************)
ResolverLines ==
    { <<"1.1.1.1", " ">>, <<"1.1.1.1", ":", "53">>, <<"junk">> }

WordLines == { "www", "bad name", " " }

SeqsUpTo(S, n) == UNION { [1..k -> S] : k \in 0..n }

\* the resolver files tried: none, one or two lines
ResolverFiles == {<<>>} \cup { <<a>> : a \in ResolverLines }
                     \cup { <<a, b>> : a, b \in ResolverLines }
WordFiles == SeqsUpTo(WordLines, MaxLines)

\* str::trim on a token sequence: blanks at both ends are removed
RECURSIVE TrimTokens(_)
TrimTokens(line) ==
    IF line = <<>> THEN <<>>
    ELSE IF Head(line) = " " THEN TrimTokens(Tail(line))
    ELSE IF line[Len(line)] = " " THEN TrimTokens(SubSeq(line, 1, Len(line) - 1))
    ELSE line

\* str::contains(':')
ContainsColon(line) == \E i \in 1..Len(line) : line[i] = ":"

IpLiterals == { "1.1.1.1" }
PortLiterals == { "53" }

\* SocketAddr::from_str: exactly <ip> ":" <port>, nothing else
SocketAddrOk(tokens) ==
    /\ Len(tokens) = 3
    /\ tokens[1] \in IpLiterals
    /\ tokens[2] = ":"
    /\ tokens[3] \in PortLiterals

SocketAddrOf(tokens) == [ip |-> tokens[1], port |-> tokens[3]]

\* the text handed to SocketAddr::from_str for one resolver line
ResolverText(line) ==
    IF ContainsColon(line) THEN line ELSE TrimTokens(line) \o <<":", "53">>

RECURSIVE ParseResolvers(_)
ParseResolvers(lines) ==
    IF lines = <<>> THEN <<>>
    ELSE LET t == ResolverText(Head(lines))
         IN  (IF SocketAddrOk(t) THEN <<SocketAddrOf(t)>> ELSE <<>>)
                 \o ParseResolvers(Tail(lines))

\* line.trim().is_empty()
IsBlank(line) == line \in { "", " " }

\* .filter(|line| !line.trim().is_empty()): the lines are kept untrimmed
RECURSIVE ParseSubdomains(_)
ParseSubdomains(lines) ==
    IF lines = <<>> THEN <<>>
    ELSE (IF IsBlank(Head(lines)) THEN <<>> ELSE <<Head(lines)>>)
             \o ParseSubdomains(Tail(lines))

\* format!("{}.{}", subdomain, domain)
FullDomain(subdomain) == subdomain \o "." \o Domain

\* Name::from_str(&format!("{}.", full_domain)).ok(): the DNS library
\* rejects a name with a blank inside a label
NameOk(full_domain) == full_domain \notin { FullDomain("bad name"), FullDomain(" ") }

VARIABLES
    pc,             \* position of main / scan(): new, error, admit, consume, done
    resolvers,      \* new(): the parsed resolver pool
    subdomains,     \* new(): the candidate labels
    next,           \* scan(): index of the next subdomain of the admission loop
    permits,        \* scan(): permits available in the semaphore
    job,            \* per candidate: waiting, spawned, racing, sending, finished
    answers,        \* per candidate and resolver: would the query answer positively
    sub,            \* per candidate and resolver: state of the sub-query task
    joinIdx,        \* per candidate: the handle try_resolvers is awaiting
    cancel,         \* per candidate: cancel_tx has sent true or was dropped
    outcome,        \* per candidate: the results try_resolvers has returned
    chan,           \* the mpsc channel: messages sent and not yet received
    sendLog,        \* history: every message in the order it entered the channel
    found_domains,  \* scan(): the names received so far
    found_jobs,     \* history: the candidate each received name came from
    printed,        \* stdout: the names printed so far
    report,         \* the value scan() returned
    firstPos,       \* history, per candidate: the resolver whose positive
                    \* answer was complete first in time (0: none yet)
    file,           \* cli: the content of the file a loader is given
    openable,       \* cli: File::open on that file succeeds
    loaded          \* cli: what the loader returned

vars == <<pc, resolvers, subdomains, next, permits, job, answers, sub, joinIdx,
          cancel, outcome, chan, sendLog, found_domains, found_jobs, printed, report,
          firstPos, file, openable, loaded>>

\* the variables of the loaders of cli.rs; the scanner never touches them
cliVars == <<file, openable, loaded>>

\* no loader has been called
NotLoaded == [ok |-> FALSE, err |-> "not called", value |-> <<>>, invalid_count |-> 0]

\* main of the scanner calls no loader of cli.rs
CliIdle == file = <<>> /\ openable = TRUE /\ loaded = NotLoaded

NoReport == [target |-> "", subdomain |-> <<>>, total_scanned |-> -1,
             resolvers_used |-> -1]

N == Len(subdomains)
R == Len(resolvers)
Cands == 1..N
Pool == 1..R

ScannerInit ==
    /\ pc = "new"
    /\ resolvers = <<>>
    /\ subdomains = <<>>
    /\ next = 1
    /\ permits = Permits
    /\ job = <<>>
    /\ answers = <<>>
    /\ sub = <<>>
    /\ joinIdx = <<>>
    /\ cancel = <<>>
    /\ outcome = <<>>
    /\ chan = <<>>
    /\ sendLog = <<>>
    /\ found_domains = <<>>
    /\ found_jobs = <<>>
    /\ printed = <<>>
    /\ report = NoReport
    /\ firstPos = <<>>

Init == ScannerInit /\ CliIdle

\* new() returns Err exactly on this condition
NewFails(rs, ss) == rs = <<>>

(***************************************************************************)
(* SubdomainScanner::new, called by main.  On Err main returns and no      *)
(* scanner exists; on Ok main calls scan().                                *)
(***************************************************************************)
New ==
    /\ pc = "new"
    /\ \E rf \in ResolverFiles, wf \in WordFiles :
         LET rs == ParseResolvers(rf)
             ss == ParseSubdomains(wf)
         IN  /\ resolvers' = rs
             /\ subdomains' = ss
             /\ pc' = IF NewFails(rs, ss) THEN "error" ELSE "admit"
             /\ job' = [c \in 1..Len(ss) |-> "waiting"]
             /\ answers' = [c \in 1..Len(ss) |-> [r \in 1..Len(rs) |-> FALSE]]
             /\ sub' = [c \in 1..Len(ss) |-> [r \in 1..Len(rs) |-> "unspawned"]]
             /\ joinIdx' = [c \in 1..Len(ss) |-> 1]
             /\ cancel' = [c \in 1..Len(ss) |-> FALSE]
             /\ outcome' = [c \in 1..Len(ss) |-> <<>>]
    /\ UNCHANGED <<next, permits, chan, sendLog, found_domains, found_jobs,
                   printed, report>>

\* faulty variant: the admission loop spawns without waiting for a permit
AcquireWithoutPermit == TRUE

\* semaphore.acquire_owned().await completes when a permit is available
AcquireReady == permits > 0

(***************************************************************************)
(* scan(), one iteration of the admission loop: acquire a permit, clone    *)
(* tx and spawn the task of the next subdomain (the task owns the permit   *)
(* and the tx clone from the moment it is spawned).                        *)
(***************************************************************************)
Admit ==
    /\ pc = "admit"
    /\ next <= N
    /\ AcquireReady
    /\ permits' = permits - 1
    /\ job' = [job EXCEPT ![next] = "spawned"]
    /\ next' = next + 1
    /\ UNCHANGED <<pc, resolvers, subdomains, answers, sub, joinIdx, cancel,
                   outcome, chan, sendLog, found_domains, found_jobs, printed,
                   report>>

\* scan(): the admission loop is over, drop(tx), go on to the receive loop
EndAdmission ==
    /\ pc = "admit"
    /\ next > N
    /\ pc' = "consume"
    /\ UNCHANGED <<resolvers, subdomains, next, permits, job, answers, sub,
                   joinIdx, cancel, outcome, chan, sendLog, found_domains,
                   found_jobs, printed, report>>

\* faulty variant: the task binds the permit with "let _ = permit", which
\* drops it at once, before the race has produced anything
StartRaceDropsPermit(c) ==
    /\ job[c] = "spawned"
    /\ IF NameOk(FullDomain(subdomains[c]))
       THEN /\ \E a \in [Pool -> BOOLEAN] : answers' = [answers EXCEPT ![c] = a]
            /\ sub' = [sub EXCEPT ![c] = [r \in Pool |-> "running"]]
            /\ job' = [job EXCEPT ![c] = "racing"]
            /\ permits' = permits + 1
            /\ UNCHANGED outcome
       ELSE /\ outcome' = [outcome EXCEPT ![c] = Append(@, "Unresolved")]
            /\ job' = [job EXCEPT ![c] = "finished"]
            /\ permits' = permits + 1
            /\ UNCHANGED <<answers, sub>>
    /\ UNCHANGED <<pc, resolvers, subdomains, next, joinIdx, cancel, chan,
                   sendLog, found_domains, found_jobs, printed, report>>

(***************************************************************************)
(* The task of candidate c starts: it formats full_domain and enters       *)
(* try_resolvers.  If the name cannot be built try_resolvers returns None  *)
(* at once and the task ends (permit and tx clone dropped); otherwise one  *)
(* sub-query task per resolver is spawned.  What each resolver would       *)
(* answer to the query is the environment's choice.                        *)
(***************************************************************************)
StartRace(c) ==
    /\ job[c] = "spawned"
    /\ IF NameOk(FullDomain(subdomains[c]))
       THEN /\ \E a \in [Pool -> BOOLEAN] : answers' = [answers EXCEPT ![c] = a]
            /\ sub' = [sub EXCEPT ![c] = [r \in Pool |-> "running"]]
            /\ job' = [job EXCEPT ![c] = "racing"]
            /\ UNCHANGED <<outcome, permits>>
       ELSE /\ outcome' = [outcome EXCEPT ![c] = Append(@, "Unresolved")]
            /\ job' = [job EXCEPT ![c] = "finished"]
            /\ permits' = permits + 1
            /\ UNCHANGED <<answers, sub>>
    /\ UNCHANGED <<pc, resolvers, subdomains, next, joinIdx, cancel, chan,
                   sendLog, found_domains, found_jobs, printed, report>>

\* faulty variant: the answer section is not looked at, any response counts
QueryResultIgnoresEmpty(c, r) == "some"

\* the value of the query branch of a sub-query: Some(full_domain) when the
\* response has answers, None on connect error, query error, timeout or an
\* empty answer section
QueryResult(c, r) == IF answers[c][r] THEN "some" ELSE "none"

\* faulty variant: one watch channel is shared by all the races
CancelSeenShared(c) == \E d \in Cands : cancel[d]

\* cancel_rx.changed() of a sub-query of candidate c is ready: the race's own
\* cancel_tx has sent true or has been dropped
CancelSeen(c) == cancel[c]

\* the query branch of select! completes in sub-query r of candidate c
QueryDone(c, r) ==
    /\ sub[c][r] = "running"
    /\ sub' = [sub EXCEPT ![c][r] = QueryResult(c, r)]
    /\ UNCHANGED <<pc, resolvers, subdomains, next, permits, job, answers,
                   joinIdx, cancel, outcome, chan, sendLog, found_domains,
                   found_jobs, printed, report>>

\* the cancel branch of select! completes in sub-query r of candidate c
QueryCancelled(c, r) ==
    /\ sub[c][r] = "running"
    /\ CancelSeen(c)
    /\ sub' = [sub EXCEPT ![c][r] = "cancelled"]
    /\ UNCHANGED <<pc, resolvers, subdomains, next, permits, job, answers,
                   joinIdx, cancel, outcome, chan, sendLog, found_domains,
                   found_jobs, printed, report>>

\* faulty variant: the first negative handle ends the race
LastHandleAfterFirst(c) == TRUE

\* the handle being awaited is the last one of the for loop over handles
LastHandle(c) == joinIdx[c] = R

(***************************************************************************)
(* try_resolvers, the loop over the join handles, in resolver order:       *)
(* handle.await completes when that sub-query task has ended.  Some(found) *)
(* sends the cancellation and returns Some; None goes on to the next       *)
(* handle; after the last handle the function returns None and the task    *)
(* ends.                                                                   *)
(***************************************************************************)
Join(c) ==
    /\ job[c] = "racing"
    /\ sub[c][joinIdx[c]] \in {"some", "none", "cancelled"}
    /\ IF sub[c][joinIdx[c]] = "some"
       THEN /\ cancel' = [cancel EXCEPT ![c] = TRUE]
            /\ outcome' = [outcome EXCEPT ![c] = Append(@, "Resolved")]
            /\ job' = [job EXCEPT ![c] = "sending"]
            /\ UNCHANGED <<joinIdx, permits>>
       ELSE IF LastHandle(c)
       THEN /\ cancel' = [cancel EXCEPT ![c] = TRUE]
            /\ outcome' = [outcome EXCEPT ![c] = Append(@, "Unresolved")]
            /\ job' = [job EXCEPT ![c] = "finished"]
            /\ permits' = permits + 1
            /\ UNCHANGED joinIdx
       ELSE /\ joinIdx' = [joinIdx EXCEPT ![c] = @ + 1]
            /\ UNCHANGED <<cancel, outcome, job, permits>>
    /\ UNCHANGED <<pc, resolvers, subdomains, next, answers, sub, chan, sendLog,
                   found_domains, found_jobs, printed, report>>

\* tx.send(found).await completes when the channel has a free slot
SendReady == Len(chan) < ChanCap

\* the message of candidate c; job is history, the channel carries the name
Message(c) == [name |-> FullDomain(subdomains[c]), job |-> c]

\* faulty variant: the race is not left on the first positive handle; after the
\* send the loop over the handles goes on
SendThenContinue(c) ==
    /\ job[c] = "sending"
    /\ SendReady
    /\ chan' = Append(chan, Message(c))
    /\ sendLog' = Append(sendLog, Message(c))
    /\ IF LastHandle(c)
       THEN /\ job' = [job EXCEPT ![c] = "finished"]
            /\ permits' = permits + 1
            /\ UNCHANGED joinIdx
       ELSE /\ job' = [job EXCEPT ![c] = "racing"]
            /\ joinIdx' = [joinIdx EXCEPT ![c] = @ + 1]
            /\ UNCHANGED permits
    /\ UNCHANGED <<pc, resolvers, subdomains, next, answers, sub, cancel,
                   outcome, found_domains, found_jobs, printed, report>>

\* faulty variant: the task ends without giving its permit back
SendLeaksPermit(c) ==
    /\ job[c] = "sending"
    /\ SendReady
    /\ chan' = Append(chan, Message(c))
    /\ sendLog' = Append(sendLog, Message(c))
    /\ job' = [job EXCEPT ![c] = "finished"]
    /\ UNCHANGED <<pc, resolvers, subdomains, next, permits, answers, sub, joinIdx,
                   cancel, outcome, found_domains, found_jobs, printed, report>>

\* the task of candidate c sends its name and ends: permit and tx dropped
Send(c) ==
    /\ job[c] = "sending"
    /\ SendReady
    /\ chan' = Append(chan, Message(c))
    /\ sendLog' = Append(sendLog, Message(c))
    /\ job' = [job EXCEPT ![c] = "finished"]
    /\ permits' = permits + 1
    /\ UNCHANGED <<pc, resolvers, subdomains, next, answers, sub, joinIdx,
                   cancel, outcome, found_domains, found_jobs, printed, report>>

\* faulty variant: the element is put at the front
VecPushFront(v, x) == <<x>> \o v

\* Vec::push
VecPush(v, x) == Append(v, x)

\* scan(), the receive loop: rx.recv() yields Some(found)
Recv ==
    /\ pc = "consume"
    /\ chan # <<>>
    /\ printed' = Append(printed, Head(chan).name)
    /\ found_domains' = VecPush(found_domains, Head(chan).name)
    /\ found_jobs' = VecPush(found_jobs, Head(chan).job)
    /\ chan' = Tail(chan)
    /\ UNCHANGED <<pc, resolvers, subdomains, next, permits, job, answers, sub,
                   joinIdx, cancel, outcome, sendLog, report>>

\* faulty variant: the tasks' clones of tx are not counted
TxAliveOnlyScan == pc = "admit"

\* a sender handle is alive: scan()'s own tx, or the clone of a live task
TxAlive == pc = "admit" \/ \E c \in Cands : job[c] \in {"spawned", "racing", "sending"}

\* faulty variant: an empty channel ends the receive loop, senders alive or not
RecvNoneOnEmpty == chan = <<>>

\* rx.recv() yields None: the channel is empty and every sender is dropped
RecvNone == chan = <<>> /\ ~TxAlive

\* faulty variant: the scanned counter counts the names found
MakeReportCountsFound ==
    [target |-> Domain,
     subdomain |-> found_domains,
     total_scanned |-> Len(found_domains),
     resolvers_used |-> Len(resolvers)]

\* the json! value scan() returns
MakeReport ==
    [target |-> Domain,
     subdomain |-> found_domains,
     total_scanned |-> Len(subdomains),
     resolvers_used |-> Len(resolvers)]

\* scan(): the receive loop ends and the report is returned
Finish ==
    /\ pc = "consume"
    /\ RecvNone
    /\ report' = MakeReport
    /\ pc' = "done"
    /\ UNCHANGED <<resolvers, subdomains, next, permits, job, answers, sub,
                   joinIdx, cancel, outcome, chan, sendLog, found_domains,
                   found_jobs, printed>>

\* history: the first positive answer of a race to be complete is recorded
NoteFirstPositive(c, r) ==
    firstPos' = [firstPos EXCEPT ![c] =
                    IF @ = 0 /\ QueryResult(c, r) = "some" THEN r ELSE @]

Next ==
    \/ New /\ firstPos' = [c \in 1..Len(subdomains') |-> 0] /\ UNCHANGED cliVars
    \/ Admit /\ UNCHANGED <<firstPos, cliVars>>
    \/ EndAdmission /\ UNCHANGED <<firstPos, cliVars>>
    \/ \E c \in Cands : StartRace(c) /\ UNCHANGED <<firstPos, cliVars>>
    \/ \E c \in Cands, r \in Pool :
           QueryDone(c, r) /\ NoteFirstPositive(c, r) /\ UNCHANGED cliVars
    \/ \E c \in Cands, r \in Pool :
           QueryCancelled(c, r) /\ UNCHANGED <<firstPos, cliVars>>
    \/ \E c \in Cands : Join(c) /\ UNCHANGED <<firstPos, cliVars>>
    \/ \E c \in Cands : Send(c) /\ UNCHANGED <<firstPos, cliVars>>
    \/ Recv /\ UNCHANGED <<firstPos, cliVars>>
    \/ Finish /\ UNCHANGED <<firstPos, cliVars>>

Spec == Init /\ [][Next]_vars

(***************************************************************************)
(* The loaders of src/src/cli.rs: Cli::load_resolvers and                  *)
(* Cli::load_domains with is_valid_domain.  Each is a function of the file *)
(* it is given; a file is a sequence of symbols, among them the newline    *)
(* and a byte that is not valid UTF-8.  A resolver file is made of tokens  *)
(* (address, ":", port, blank, "#"), a domain file of characters.          *)
(***************************************************************************)

\* bounds: the longest resolver file (tokens) and domain file (characters)
MaxResolverTokens == 5
MaxDomainChars == 5

\* is_valid_domain allows 253 characters per name and 63 per label; the
\* model scales both down so that longer names and labels are within bounds
MaxDomainLen == 4
MaxLabelLen == 2

Newline == "\n"
BadByte == "<not utf-8>"

ResolverSymbols == { "1.1.1.1", "junk", ":", "5353", " ", "#", Newline, BadByte }
DomainSymbols == { "a", "B", ".", "-", " ", "#", Newline, BadByte }

ResolverTexts == SeqsUpTo(ResolverSymbols, MaxResolverTokens)
DomainTexts == SeqsUpTo(DomainSymbols, MaxDomainChars)

\* index of the first newline of a text, 0 when it has none
RECURSIVE FirstNewline(_, _)
FirstNewline(text, i) ==
    IF i > Len(text) THEN 0
    ELSE IF text[i] = Newline THEN i
    ELSE FirstNewline(text, i + 1)

\* BufRead::lines: the text is cut at the newlines; a last line needs none
RECURSIVE Lines(_)
Lines(text) ==
    IF text = <<>> THEN <<>>
    ELSE LET k == FirstNewline(text, 1)
         IN  IF k = 0 THEN <<text>>
             ELSE <<SubSeq(text, 1, k - 1)>> \o Lines(SubSeq(text, k + 1, Len(text)))

\* lines() yields Ok for the line: it is valid UTF-8
Readable(raw) == \A i \in 1..Len(raw) : raw[i] # BadByte

\* line.is_empty() || line.starts_with('#'), on the trimmed line
BlankOrComment(line) == line = <<>> \/ Head(line) = "#"

LoadError(kind, invalid) ==
    [ok |-> FALSE, err |-> kind, value |-> <<>>, invalid_count |-> invalid]

LoadOk(items, invalid) ==
    [ok |-> TRUE, err |-> "", value |-> items, invalid_count |-> invalid]

CliPortLiterals == { "53", "5353" }

\* addr.to_socket_addrs() is Ok: the text is <ip> ":" <port>.  (No name of
\* the model resolves through DNS, and Ok never comes with no address.)
ToSocketAddrsOk(addr) ==
    /\ Len(addr) = 3
    /\ addr[1] \in IpLiterals
    /\ addr[2] = ":"
    /\ addr[3] \in CliPortLiterals

\* addrs.next()
FirstSocketAddr(addr) == [ip |-> addr[1], port |-> addr[3]]

\* faulty variant: no default port is added
AddrTextAsWritten(line) == line

\* load_resolvers: the text handed to to_socket_addrs
AddrText(line) == IF ContainsColon(line) THEN line ELSE line \o <<":", "53">>

\* load_resolvers, the loop over the lines and what follows it
RECURSIVE LoadResolversFrom(_, _, _)
LoadResolversFrom(lines, acc, invalid) ==
    IF lines = <<>>
    THEN IF acc = <<>> THEN LoadError("no valid entry", invalid)
         ELSE LoadOk(acc, invalid)
    ELSE IF ~Readable(Head(lines)) THEN LoadError("io", 0)
    ELSE LET line == TrimTokens(Head(lines))
         IN  IF BlankOrComment(line)
             THEN LoadResolversFrom(Tail(lines), acc, invalid)
             ELSE IF ToSocketAddrsOk(AddrText(line))
             THEN LoadResolversFrom(Tail(lines),
                                    Append(acc, FirstSocketAddr(AddrText(line))),
                                    invalid)
             ELSE LoadResolversFrom(Tail(lines), acc, invalid + 1)

\* Cli::load_resolvers
LoadResolvers(canOpen, text) ==
    IF ~canOpen THEN LoadError("io", 0)
    ELSE LoadResolversFrom(Lines(text), <<>>, 0)

AsciiAlphanumeric == { "a", "b", "B" }

\* c.is_ascii_alphanumeric() || c == '-' || c == '_'
AllowedChar(c) == c \in AsciiAlphanumeric \/ c = "-" \/ c = "_"

\* faulty variant: the length of the label is checked, not that it has any
\* character
BadLabelOnlyTooLong(label_chars) == label_chars > MaxLabelLen

\* is_valid_domain, at a '.': label_chars == 0 || label_chars > 63
BadLabel(label_chars) == label_chars = 0 \/ label_chars > MaxLabelLen

\* is_valid_domain, the loop over the characters
RECURSIVE ScanChars(_, _)
ScanChars(domain, label_chars) ==
    IF domain = <<>> THEN TRUE
    ELSE IF Head(domain) = "."
    THEN IF BadLabel(label_chars) THEN FALSE ELSE ScanChars(Tail(domain), 0)
    ELSE IF ~AllowedChar(Head(domain)) THEN FALSE
    ELSE IF label_chars + 1 > MaxLabelLen THEN FALSE
    ELSE ScanChars(Tail(domain), label_chars + 1)

\* is_valid_domain
IsValidDomain(domain) ==
    IF Len(domain) > MaxDomainLen THEN FALSE
    ELSE IF domain # <<>> /\ (Head(domain) = "." \/ domain[Len(domain)] = ".")
    THEN FALSE
    ELSE ScanChars(domain, 0)

\* char::to_lowercase on the characters of the model
LowerChar(c) == IF c = "B" THEN "b" ELSE c

\* str::to_lowercase
ToLowercase(line) == [i \in 1..Len(line) |-> LowerChar(line[i])]

\* load_domains, the loop over the lines and what follows it
RECURSIVE LoadDomainsFrom(_, _, _)
LoadDomainsFrom(lines, acc, invalid) ==
    IF lines = <<>>
    THEN IF acc = <<>> THEN LoadError("no valid entry", invalid)
         ELSE LoadOk(acc, invalid)
    ELSE IF ~Readable(Head(lines)) THEN LoadError("io", 0)
    ELSE LET line == TrimTokens(Head(lines))
         IN  IF BlankOrComment(line)
             THEN LoadDomainsFrom(Tail(lines), acc, invalid)
             ELSE IF IsValidDomain(line)
             THEN LoadDomainsFrom(Tail(lines), Append(acc, ToLowercase(line)), invalid)
             ELSE LoadDomainsFrom(Tail(lines), acc, invalid + 1)

\* Cli::load_domains
LoadDomains(canOpen, text) ==
    IF ~canOpen THEN LoadError("io", 0)
    ELSE LoadDomainsFrom(Lines(text), <<>>, 0)

\* a file that cannot be opened, or one of the texts
FileIs(texts) ==
    \/ openable = TRUE /\ file \in texts
    \/ openable = FALSE /\ file = <<>>

ResolverInit == ScannerInit /\ loaded = NotLoaded /\ FileIs(ResolverTexts)

\* Cli::to_config calls self.load_resolvers()
LoadResolversCall ==
    /\ loaded = NotLoaded
    /\ loaded' = LoadResolvers(openable, file)
    /\ UNCHANGED <<pc, resolvers, subdomains, next, permits, job, answers, sub,
                   joinIdx, cancel, outcome, chan, sendLog, found_domains,
                   found_jobs, printed, report, firstPos, file, openable>>

ResolverSpec == ResolverInit /\ [][LoadResolversCall]_vars

DomainInit == ScannerInit /\ loaded = NotLoaded /\ FileIs(DomainTexts)

\* Cli::to_config calls self.load_domains()
LoadDomainsCall ==
    /\ loaded = NotLoaded
    /\ loaded' = LoadDomains(openable, file)
    /\ UNCHANGED <<pc, resolvers, subdomains, next, permits, job, answers, sub,
                   joinIdx, cancel, outcome, chan, sendLog, found_domains,
                   found_jobs, printed, report, firstPos, file, openable>>

DomainSpec == DomainInit /\ [][LoadDomainsCall]_vars

(***************************************************************************)
(* Vocabulary of the properties.                                           *)
(***************************************************************************)
Count(seq, x) == Cardinality({ i \in 1..Len(seq) : seq[i] = x })

Outstanding == { c \in Cands : job[c] \in {"spawned", "racing", "sending"} }

\* try_resolvers has been entered for candidate c
Raced(c) == job[c] \in {"racing", "sending", "finished"}

\* try_resolvers has returned for candidate c
Returned(c) == job[c] \in {"sending", "finished"}

Positives(c) == { r \in Pool : answers[c][r] }

SentJobs == [i \in 1..Len(sendLog) |-> sendLog[i].job]
SentNames == [i \in 1..Len(sendLog) |-> sendLog[i].name]
ChanNames == [i \in 1..Len(chan) |-> chan[i].name]

Done == pc = "done"

(***************************************************************************)
(* C1  Completeness: no candidate ever has more than one race outcome, and *)
(* when scan() has returned its report, total_scanned is the number of     *)
(* candidates N, every one of the N candidates has exactly one outcome     *)
(* (Resolved or Unresolved), and the resolved sequence has at most N       *)
(* elements.                                                               *)
(***************************************************************************)
C1_Completeness ==
    /\ \A c \in Cands : Len(outcome[c]) <= 1
    /\ Done =>
         /\ report.total_scanned = N
         /\ \A c \in Cands :
              /\ Len(outcome[c]) = 1
              /\ outcome[c][1] \in {"Resolved", "Unresolved"}
         /\ Len(report.subdomain) <= N

\* a returned scan of a full-length wordlist with both kinds of outcome
C1_Witness ==
    /\ Done
    /\ N = MaxLines
    /\ \E c \in Cands : outcome[c] = <<"Resolved">>
    /\ \E c \in Cands : outcome[c] = <<"Unresolved">>

(***************************************************************************)
(* C2  The scan always completes: in every reachable state either main has *)
(* ended (scan() returned its report, or new() returned an error) or some  *)
(* step of the scan can be taken; the scan never gets stuck.               *)
(***************************************************************************)
C2_ScanAlwaysCompletes == pc \in {"done", "error"} \/ ENABLED Next

(***************************************************************************)
(* C3  Concurrency ceiling: the number of outstanding jobs (spawned and    *)
(* not finished) never exceeds the permit count of the semaphore.          *)
(***************************************************************************)
C3_CeilingRespected == Cardinality(Outstanding) <= Permits

\* more candidates than permits, the ceiling reached, a candidate waiting,
\* and every query of the outstanding jobs still pending
C3_Witness ==
    /\ N > Permits
    /\ Cardinality(Outstanding) = Permits
    /\ \E c \in Cands : job[c] = "waiting"
    /\ \A c \in Outstanding : job[c] = "racing" /\ \A r \in Pool : sub[c][r] = "running"

(***************************************************************************)
(* C4  Race correctness: a candidate for which exactly one resolver of the *)
(* pool answers positively is returned as Resolved by its race, wherever   *)
(* that resolver stands in the pool and in whatever order the sub-queries  *)
(* complete, and it is in the resolved sequence of the report exactly      *)
(* once.                                                                   *)
(***************************************************************************)
C4_RaceCorrectness ==
    \A c \in Cands :
        Cardinality(Positives(c)) = 1 =>
            /\ Returned(c) => outcome[c] = <<"Resolved">>
            /\ Done =>
                 /\ Count(found_jobs, c) = 1
                 /\ \E i \in 1..Len(report.subdomain) :
                      /\ found_jobs[i] = c
                      /\ report.subdomain[i] = FullDomain(subdomains[c])

\* the only positive resolver is the last of a pool of two; the scan has
\* returned with the candidate in the resolved sequence
C4_Witness ==
    /\ Done
    /\ R = 2
    /\ \E c \in Cands : answers[c] = <<FALSE, TRUE>> /\ Count(found_jobs, c) = 1

(***************************************************************************)
(* C5  Cancellation does not double-report: a candidate for which two or   *)
(* more resolvers answer positively gets one race outcome, puts at most    *)
(* one message on the result channel, and is in the resolved sequence of   *)
(* the report exactly once.                                                *)
(***************************************************************************)
C5_NoDoubleReport ==
    \A c \in Cands :
        Cardinality(Positives(c)) >= 2 =>
            /\ Len(outcome[c]) <= 1
            /\ Count(SentJobs, c) <= 1
            /\ Count(SentJobs, c) = 1 => outcome[c] = <<"Resolved">>
            /\ Done => Count(found_jobs, c) = 1

\* both resolvers answered positively, the loser completed its query after
\* the cancellation was sent, and the scan has returned
C5_Witness ==
    /\ Done
    /\ \E c \in Cands :
         /\ answers[c] = <<TRUE, TRUE>>
         /\ sub[c] = <<"some", "some">>
         /\ Count(found_jobs, c) = 1

(***************************************************************************)
(* C6  All-fail candidate: a candidate whose name cannot be built or whose *)
(* sub-queries all end negatively is returned as Unresolved, never puts a  *)
(* message on the result channel, is not in the resolved sequence, is      *)
(* counted by total_scanned, and the other candidates still get their      *)
(* outcome.                                                                *)
(***************************************************************************)
C6_AllFail ==
    \A c \in Cands :
        (Raced(c) /\ Positives(c) = {}) =>
            /\ Returned(c) => outcome[c] = <<"Unresolved">>
            /\ Count(SentJobs, c) = 0
            /\ Count(found_jobs, c) = 0
            /\ Done =>
                 /\ report.total_scanned = N
                 /\ Len(report.subdomain) < N
                 /\ \A d \in Cands : Len(outcome[d]) = 1

\* a returned scan with a name that could not be built, a name every
\* resolver answered negatively, and a resolved name after them
C6_Witness ==
    /\ Done
    /\ R = 2
    /\ \E c, d, e \in Cands :
         /\ c < e /\ d < e
         /\ ~NameOk(FullDomain(subdomains[c]))
         /\ NameOk(FullDomain(subdomains[d]))
         /\ sub[d] = <<"none", "none">>
         /\ outcome[c] = <<"Unresolved">>
         /\ outcome[d] = <<"Unresolved">>
         /\ Count(found_jobs, e) = 1

(***************************************************************************)
(* C7  Empty-pool rejection: once new() has run on a resolver file with no *)
(* valid resolver or on a wordlist with no candidate, it has returned an   *)
(* error and no job is admitted.                                           *)
(***************************************************************************)
C7_EmptyPoolRejected ==
    (pc # "new" /\ (R = 0 \/ N = 0)) => (pc = "error" /\ Outstanding = {})

(***************************************************************************)
(* C8  Streaming without buffering delay: a resolved name waiting in the   *)
(* result channel can be received by the consumer also while candidates    *)
(* are still waiting to be admitted.                                       *)
(***************************************************************************)
C8_StreamedWhileAdmitting ==
    (chan # <<>> /\ \E c \in Cands : job[c] = "waiting") => ENABLED Recv

(***************************************************************************)
(* C9  The report: when scan() has returned, the resolved sequence holds   *)
(* exactly the candidates for which at least one resolver answers          *)
(* positively, each once and under its full name, total_scanned is the     *)
(* number of candidates and resolvers_used the size of the pool.           *)
(***************************************************************************)
C9_ReportExact ==
    Done =>
        /\ { found_jobs[i] : i \in 1..Len(found_jobs) }
               = { c \in Cands : Positives(c) # {} }
        /\ \A c \in Cands : Count(found_jobs, c) <= 1
        /\ Len(report.subdomain) = Len(found_jobs)
        /\ \A i \in 1..Len(found_jobs) :
               report.subdomain[i] = FullDomain(subdomains[found_jobs[i]])
        /\ report.total_scanned = N
        /\ report.resolvers_used = R
        /\ report.target = Domain

\* the example: two resolvers, two candidates, the only positive answer is
\* the second resolver's for the first candidate
C9_Witness ==
    /\ Done
    /\ R = 2
    /\ N = 2
    /\ \A c \in Cands : NameOk(FullDomain(subdomains[c]))
    /\ sub = << <<"none", "some">>, <<"none", "none">> >>
    /\ report = [target |-> Domain,
                 subdomain |-> << FullDomain(subdomains[1]) >>,
                 total_scanned |-> 2,
                 resolvers_used |-> 2]

C13_ReturnsOnFirstPositive ==
    \A c \in Cands :
        (job[c] = "racing" /\ \E r \in Pool : sub[c][r] = "some") => ENABLED Join(c)

(***************************************************************************)
(* C14  The winner is the first in time: the resolver whose positive       *)
(* handle makes the race return Resolved is the one whose positive answer  *)
(* was complete first.                                                     *)
(***************************************************************************)
C14_WinnerIsFirstInTime ==
    \A c \in Cands : outcome[c] = <<"Resolved">> => joinIdx[c] = firstPos[c]

(***************************************************************************)
(* C15  Permit release is decoupled from consumption: a job whose race has *)
(* produced its outcome can always end and give its permit back, whether   *)
(* or not the consumer is receiving.                                       *)
(***************************************************************************)
C15_ReleaseNeedsNoConsumer ==
    \A c \in Cands : job[c] = "sending" => ENABLED Send(c)

(***************************************************************************)
(* C16  No early release: the jobs whose race has not returned all hold a  *)
(* permit, and a permit goes back to the semaphore only in a step in which *)
(* one job ends with its race outcome produced, on each exit path.         *)
(***************************************************************************)
C16_NoEarlyRelease ==
    /\ [](Cardinality({ c \in Cands : job[c] \in {"spawned", "racing"} })
              <= Permits - permits)
    /\ [][permits' > permits =>
            /\ permits' = permits + 1
            /\ \E c \in Cands :
                 /\ job[c] \in {"spawned", "racing", "sending"}
                 /\ job'[c] = "finished"
                 /\ Len(outcome'[c]) = 1]_vars

\* jobs have ended on the three exit paths (name not built, Unresolved,
\* Resolved) while another race is still running with its permit
C16_Witness ==
    /\ permits = Permits - 1
    /\ \E c \in Cands : job[c] = "racing"
    /\ \E c \in Cands : job[c] = "finished" /\ ~NameOk(FullDomain(subdomains[c]))
    /\ \E c \in Cands : job[c] = "finished" /\ outcome[c] = <<"Resolved">>
    /\ \E c \in Cands :
         /\ job[c] = "finished"
         /\ outcome[c] = <<"Unresolved">>
         /\ NameOk(FullDomain(subdomains[c]))

(***************************************************************************)
(* C17  The report is final: when scan() has returned, every task has      *)
(* ended, the channel is empty, and every candidate returned as Resolved   *)
(* is in the resolved sequence of the report.                              *)
(***************************************************************************)
C17_ReportAfterAllJobs ==
    Done =>
        /\ \A c \in Cands : job[c] = "finished"
        /\ chan = <<>>
        /\ \A c \in Cands :
             outcome[c] = <<"Resolved">> =>
                 \E i \in 1..Len(report.subdomain) :
                     found_jobs[i] = c /\ report.subdomain[i] = Message(c).name

\* a returned scan in which three or more candidates resolved, all reported
C17_Witness ==
    /\ Done
    /\ N >= 3
    /\ \A c \in Cands : outcome[c] = <<"Resolved">>
    /\ Len(report.subdomain) = N

(***************************************************************************)
(* C18  Cancellation stays inside its race: a sub-query ends as cancelled  *)
(* only after its own race has returned Resolved on an earlier handle, and *)
(* the outcome of a race is decided by the answers to its own sub-queries. *)
(***************************************************************************)
C18_CancellationIsLocal ==
    \A c \in Cands :
        /\ \A r \in Pool :
             sub[c][r] = "cancelled" =>
                 /\ cancel[c]
                 /\ outcome[c] = <<"Resolved">>
                 /\ joinIdx[c] < r
        /\ Returned(c) =>
             outcome[c] = << IF Positives(c) # {} THEN "Resolved" ELSE "Unresolved" >>

\* one race has cancelled its second sub-query while the sub-queries of
\* another race are all still running
C18_Witness ==
    \E c, d \in Cands :
        /\ c # d
        /\ R = 2
        /\ sub[d][2] = "cancelled"
        /\ job[c] = "racing"
        /\ \A r \in Pool : sub[c][r] = "running"

(***************************************************************************)
(* C19  First-come-first-served admission without starvation: candidates   *)
(* are admitted in wordlist order, and while the admission loop has a      *)
(* candidate waiting the scan is never in a state it cannot leave.         *)
(***************************************************************************)
C19_FcfsNoStarvation ==
    /\ \A c, d \in Cands : (c < d /\ job[d] # "waiting") => job[c] # "waiting"
    /\ (pc = "admit" /\ \E c \in Cands : job[c] = "waiting") => ENABLED Next

(***************************************************************************)
(* C20  Permit conservation: the permits available plus the jobs that have *)
(* not ended always add up to the permit count of the semaphore, and when  *)
(* scan() has returned every permit is back.                               *)
(***************************************************************************)
C20_PermitConservation ==
    /\ permits \in 0..Permits
    /\ permits + Cardinality(Outstanding) = Permits
    /\ Done => (permits = Permits /\ Outstanding = {})

\* a full-length wordlist, longer than the permit count, has been scanned
C20_Witness ==
    /\ Done
    /\ N = MaxLines
    /\ N > Permits
    /\ permits = Permits
    /\ Len(found_jobs) >= 1

(***************************************************************************)
(* The loaders: what a call returns, said from the file's lines.           *)
(***************************************************************************)

Called == loaded # NotLoaded

Range(seq) == { seq[i] : i \in 1..Len(seq) }

\* the trimmed i-th line of the file
LineAt(i) == TrimTokens(Lines(file)[i])

\* the lines that are neither blank nor a comment
KeptLines ==
    { i \in 1..Len(Lines(file)) : LineAt(i) # <<>> /\ Head(LineAt(i)) # "#" }

\* some line of the file cannot be read, or the file cannot be opened
Unreadable ==
    ~openable \/ \E i \in 1..Len(Lines(file)) : BadByte \in Range(Lines(file)[i])

\* position of line i among the lines of idx
Rank(idx, i) == Cardinality({ j \in idx : j <= i })

\* the line is an address with or without a port
ResolvesToAddr(line) ==
    \/ Len(line) = 1 /\ line[1] = "1.1.1.1"
    \/ Len(line) = 3 /\ line[1] = "1.1.1.1" /\ line[2] = ":" /\ line[3] = "5353"

EndpointOf(line) ==
    [ip |-> line[1], port |-> IF ":" \in Range(line) THEN line[3] ELSE "53"]

ResolvingLines == { i \in KeptLines : ResolvesToAddr(LineAt(i)) }

\* C11 (as amended): load_resolvers fails when the file cannot be opened or a
\* line of it cannot be read; otherwise it fails exactly when no line resolves,
\* it counts the kept lines that do not resolve, and on success it returns, in
\* file order, one endpoint per kept line that resolves, with port 53 when the
\* line has no ':'.
C11_LoadResolversContract ==
    Called =>
        IF Unreadable THEN ~loaded.ok
        ELSE /\ loaded.ok <=> ResolvingLines # {}
             /\ loaded.invalid_count = Cardinality(KeptLines \ ResolvingLines)
             /\ loaded.ok =>
                    /\ Len(loaded.value) = Cardinality(ResolvingLines)
                    /\ \A i \in ResolvingLines :
                           loaded.value[Rank(ResolvingLines, i)] = EndpointOf(LineAt(i))

\* C11 witness: two lines without a port are returned with port 53 and one
\* line that does not resolve is counted.
C11_Witness ==
    /\ Called
    /\ loaded.ok
    /\ Len(loaded.value) = 2
    /\ loaded.value[1].port = "53"
    /\ loaded.invalid_count = 1

\* C11 as stated: the call fails exactly when no valid resolver remains.
C11_FailsOnlyWhenNoneValid ==
    Called => (~loaded.ok <=> ResolvingLines = {})

\* the name satisfies the rules is_valid_domain is documented to enforce
WellFormedName(line) ==
    /\ Len(line) <= MaxDomainLen
    /\ line[1] # "." /\ line[Len(line)] # "."
    /\ \A i \in 1..(Len(line) - 1) : ~(line[i] = "." /\ line[i + 1] = ".")
    /\ \A i \in 1..Len(line) : \A j \in i..Len(line) :
           (\A k \in i..j : line[k] # ".") => j - i + 1 <= MaxLabelLen
    /\ \A i \in 1..Len(line) : line[i] \in { "a", "b", "B", "-", "_", "." }

ValidNameLines == { i \in KeptLines : WellFormedName(LineAt(i)) }

LowerCased(line) ==
    [i \in 1..Len(line) |-> IF line[i] = "B" THEN "b" ELSE line[i]]

\* C12 (as amended): load_domains fails when the file cannot be opened or a
\* line of it cannot be read; otherwise it fails exactly when no line is a
\* valid name, it counts the kept lines that are not, and on success it
\* returns, in file order and lower-cased, exactly the kept lines that are
\* valid names.
C12_LoadDomainsContract ==
    Called =>
        IF Unreadable THEN ~loaded.ok
        ELSE /\ loaded.ok <=> ValidNameLines # {}
             /\ loaded.invalid_count = Cardinality(KeptLines \ ValidNameLines)
             /\ loaded.ok =>
                    /\ Len(loaded.value) = Cardinality(ValidNameLines)
                    /\ \A i \in ValidNameLines :
                           loaded.value[Rank(ValidNameLines, i)] = LowerCased(LineAt(i))

\* C12 witness: an upper-case name is returned lower-cased and a line with a
\* leading dot was skipped and counted.
C12_Witness ==
    /\ Called
    /\ loaded.ok
    /\ loaded.value = << <<"b">> >>
    /\ loaded.invalid_count = 1
    /\ \E i \in KeptLines : Len(LineAt(i)) >= 2 /\ LineAt(i)[1] = "."

\* C12 as stated: the call fails exactly when no valid domain remains.
C12_FailsOnlyWhenNoneValid ==
    Called => (~loaded.ok <=> ValidNameLines = {})
====
